---- MODULE Spec2Model ----
(***************************************************************************)
(* Model of python/paddle/distributed/spawn.py: the environment planner    *)
(* (_options_valid_check, _get_subprocess_env_list), the worker launcher   *)
(* (spawn, _func_wrapper) and the pool supervisor (MultiprocessContext).   *)
(*                                                                         *)
(* Workers are numbered 0 .. nprocs-1 as in the source.  A Python list is  *)
(* a sequence whose element i is At(list, i).                              *)
(***************************************************************************)
EXTENDS Integers, Sequences, FiniteSets, TLC

\* ----------------------------------------------------------------- bounds
MaxProcs == 2        \* largest nprocs argument tried
MaxDevices == 2      \* device ids are 0 .. MaxDevices-1
MaxSelected == 2     \* longest explicit selected_gpus list tried

\* -------------------------------------------------------------- constants
SIGTERM == 15                 \* what process.terminate() sends
ExternalSignals == {9}        \* signals something else may kill a worker with
SysExitCodes == {2}           \* codes func may call sys.exit with

\* the values func may return in a worker whose environment is env: as in
\* the scenario "the worker function returns i*10 for rank i"
FuncResults(env) == {10 * env.PADDLE_TRAINER_ID}

\* the exceptions func may raise in a worker whose environment is env
FuncErrors(env) == {<<"ValueError: boom in rank ", ToString(env.PADDLE_TRAINER_ID)>>}

\* the empty map
Empty == << >>

\* element i (0-based) of a Python list
At(list, i) == list[i + 1]

\* range(n) as a Python list
RECURSIVE Range(_)
Range(n) == IF n <= 0 THEN << >> ELSE Append(Range(n - 1), n - 1)

\* the first n elements of a list (n <= Len(list))
Prefix(list, n) == [k \in 1..n |-> list[k]]

\* the elements of a list
Elems(list) == {list[k] : k \in 1..Len(list)}

\* all lists over S of length lo .. hi
SeqsOf(S, lo, hi) == UNION {[1..n -> S] : n \in lo..hi}

VARIABLES
    \* ---- arguments of spawn and its environment
    nprocs,          \* the nprocs argument, then the resolved worker count
    join,            \* the join argument
    options,         \* **options, a map from option key to value
    device,          \* what get_device() tells: "cpu" or "gpu"
    cpu_num,         \* _cpu_num()
    cuda_count,      \* core.get_cuda_device_count()
    env_devices,     \* os.getenv("CUDA_VISIBLE_DEVICES"): None or a list
    \* ---- locals of spawn
    spawnPc,         \* where spawn is
    spawnError,      \* the exception spawn raised before the join loop
    procs_env_list,  \* the planned environment records
    processes,       \* the list of started processes (worker indices)
    \* ---- the worker processes
    env_dict,        \* worker -> the env_dict argument of its _func_wrapper
    wstate,          \* worker -> position inside _func_wrapper
    osenv,           \* worker -> the environment record it installed
    result,          \* worker -> value returned by func
    tb,              \* worker -> traceback.format_exc() it formatted
    exitcode,        \* worker -> process.exitcode, for the exited workers
    failOrder,       \* the workers that exited with a non-zero status, in
                     \* the order they exited
    error_queues,    \* worker -> content of its error queue
    return_queues,   \* worker -> content of its return queue
    puts,            \* how often each put happened: [writer, owner, channel]
                     \* -> number of puts by writer into that channel of owner
    \* ---- MultiprocessContext
    sentinels,       \* self.sentinels: sentinel -> worker index
    joinPc,          \* where the running join call is ("idle": none runs)
    ready,           \* the list the wait of the last join call returned
    error_index,     \* local error_index of the last join call
    drain_i,         \* position of the terminate-and-join loop
    joined,          \* the workers process.join() has returned for
    waited,          \* whether the last join call reached the wait
    outcome,         \* how the last join call ended
    raised,          \* the exceptions join has raised, oldest first
    join_calls,      \* worker -> number of process.join() calls on it
    terminated       \* the workers process.terminate() has been called on

spawnArgs == <<nprocs, join, options, device, cpu_num, cuda_count, env_devices>>
spawnVars == <<spawnPc, spawnError, procs_env_list, processes>>
workerVars == <<env_dict, wstate, osenv, result, tb, exitcode, failOrder,
                error_queues, return_queues, puts>>
ctxVars == <<sentinels, joinPc, ready, error_index, drain_i, joined, waited,
             outcome, raised, join_calls, terminated>>
vars == <<spawnArgs, spawnVars, workerVars, ctxVars>>

\* all worker indices a run can use (nprocs = -1 resolves to a device count)
Workers == 0..((IF MaxProcs >= MaxDevices THEN MaxProcs ELSE MaxDevices) - 1)
\* the workers of this pool
Pool == {At(processes, k) : k \in 0..(Len(processes) - 1)}

\* the count a counting map holds for x
Count(f, x) == IF x \in DOMAIN f THEN f[x] ELSE 0

\* the counting map f with the count of every element of S raised by one
Incr(f, S) == [x \in DOMAIN f \cup S |->
                 Count(f, x) + (IF x \in S THEN 1 ELSE 0)]

\* ------------------------------------------------------ environment planner

\* supported_options of _options_valid_check
supported_options == {"start_method", "cluster_node_ips", "node_ip",
                      "started_port", "selected_gpus", "print_config",
                      "use_paddlecloud"}

\* _options_valid_check(options): the error it raises, or "none"
OptionsValidCheckError(opts) ==
    IF \E key \in DOMAIN opts : key \notin supported_options
    THEN "ValueError: option not supported"
    ELSE "none"

\* env_devices_list of _get_subprocess_env_list: the visible devices
EnvDevicesList(envDevices, cudaCount) ==
    IF envDevices = << >> THEN Range(cudaCount) ELSE envDevices

\* the error _get_subprocess_env_list raises, or "none"
PlanError(n, opts, envDevices, cudaCount) ==
    LET env_devices_list == EnvDevicesList(envDevices, cudaCount) IN
    IF "cluster_node_ips" \in DOMAIN opts /\ "node_ip" \notin DOMAIN opts
    THEN "ValueError: please input current node ip"
    ELSE IF "selected_gpus" \notin DOMAIN opts
    THEN IF Len(env_devices_list) < n
         THEN "RuntimeError: visible devices less than spawn processes"
         ELSE "none"
    ELSE IF \E card_id \in Elems(opts["selected_gpus"]) :
                card_id \notin Elems(env_devices_list)
         THEN "ValueError: selected gpu card cannot found"
         ELSE "none"

\* args.selected_gpus once _get_subprocess_env_list has resolved it
SelectedGpus(n, opts, envDevices, cudaCount) ==
    IF "selected_gpus" \notin DOMAIN opts
    THEN Prefix(EnvDevicesList(envDevices, cudaCount), n)
    ELSE opts["selected_gpus"]

\* get_cluster_and_pod(args).trainers: one trainer per selected device
PodTrainers(selected_gpus) ==
    [k \in 1..Len(selected_gpus) |-> [rank |-> k - 1, gpu |-> selected_gpus[k]]]

\* _prepare_trainer_env(cluster, trainer)
PrepareTrainerEnv(trainers, trainer) ==
    [PADDLE_TRAINER_ID |-> trainer.rank,
     FLAGS_selected_gpus |-> trainer.gpu,
     PADDLE_TRAINERS_NUM |-> Len(trainers)]

\* the list _get_subprocess_env_list returns when it raises nothing
ProcessesEnvList(n, opts, envDevices, cudaCount) ==
    LET trainers == PodTrainers(SelectedGpus(n, opts, envDevices, cudaCount)) IN
    [k \in 1..Len(trainers) |-> PrepareTrainerEnv(trainers, trainers[k])]

\* ------------------------------------------------------------------- spawn

\* spawn, line 373: _options_valid_check(options)
OptionsValidCheck ==
    /\ spawnPc = "check"
    /\ LET err == OptionsValidCheckError(options) IN
       /\ spawnError' = err
       /\ spawnPc' = IF err = "none" THEN "nprocs" ELSE "raised"
    /\ UNCHANGED <<spawnArgs, procs_env_list, processes, workerVars, ctxVars>>

\* spawn, lines 376-382: the default nprocs
DefaultNprocs ==
    /\ spawnPc = "nprocs"
    /\ nprocs' = IF nprocs = -1
                 THEN IF device = "cpu" THEN cpu_num ELSE cuda_count
                 ELSE nprocs
    /\ spawnPc' = "plan"
    /\ UNCHANGED <<join, options, device, cpu_num, cuda_count, env_devices,
                   spawnError, procs_env_list, processes, workerVars, ctxVars>>

\* GetSubprocessEnvList with the first process started before the planner
\* has validated the options
GetSubprocessEnvList_StartsFirst ==
    /\ spawnPc = "plan"
    /\ LET err == PlanError(nprocs, options, env_devices, cuda_count) IN
       /\ spawnError' = err
       /\ spawnPc' = IF err = "none" THEN "start" ELSE "raised"
       /\ procs_env_list' =
              IF err = "none"
              THEN ProcessesEnvList(nprocs, options, env_devices, cuda_count)
              ELSE procs_env_list
       /\ processes' = IF err = "none" THEN processes ELSE <<0>>
    /\ UNCHANGED <<spawnArgs, workerVars, ctxVars>>

\* spawn, line 388: procs_env_list = _get_subprocess_env_list(nprocs, options)
GetSubprocessEnvList ==
    /\ spawnPc = "plan"
    /\ LET err == PlanError(nprocs, options, env_devices, cuda_count) IN
       /\ spawnError' = err
       /\ spawnPc' = IF err = "none" THEN "start" ELSE "raised"
       /\ procs_env_list' =
              IF err = "none"
              THEN ProcessesEnvList(nprocs, options, env_devices, cuda_count)
              ELSE procs_env_list
    /\ UNCHANGED <<spawnArgs, processes, workerVars, ctxVars>>

\* process.sentinel of worker i
SentinelBase == 100
Sentinel(i) == SentinelBase + i

\* StartProcess with line 408 passing procs_env_list[0] to every process
StartProcess_FirstRecord ==
    /\ spawnPc = "start"
    /\ Len(processes) < nprocs
    /\ LET i == Len(processes) IN
       IF i >= Len(procs_env_list)
       THEN /\ spawnPc' = "raised"
            /\ spawnError' = "IndexError: list index out of range"
            /\ UNCHANGED <<processes, workerVars>>
       ELSE /\ processes' = Append(processes, i)
            /\ env_dict' = env_dict @@ (i :> At(procs_env_list, 0))
            /\ wstate' = wstate @@ (i :> "boot")
            /\ error_queues' = error_queues @@ (i :> << >>)
            /\ return_queues' = return_queues @@ (i :> << >>)
            /\ UNCHANGED <<spawnPc, spawnError, osenv, result, tb, exitcode,
                           failOrder, puts>>
    /\ UNCHANGED <<spawnArgs, procs_env_list, ctxVars>>

\* spawn, lines 403-413: one pass of the loop that starts process i
StartProcess ==
    /\ spawnPc = "start"
    /\ Len(processes) < nprocs
    /\ LET i == Len(processes) IN
       IF i >= Len(procs_env_list)
       THEN \* procs_env_list[i] raises IndexError
            /\ spawnPc' = "raised"
            /\ spawnError' = "IndexError: list index out of range"
            /\ UNCHANGED <<processes, workerVars>>
       ELSE /\ processes' = Append(processes, i)
            /\ env_dict' = env_dict @@ (i :> At(procs_env_list, i))
            /\ wstate' = wstate @@ (i :> "boot")
            /\ error_queues' = error_queues @@ (i :> << >>)
            /\ return_queues' = return_queues @@ (i :> << >>)
            /\ UNCHANGED <<spawnPc, spawnError, osenv, result, tb, exitcode,
                           failOrder, puts>>
    /\ UNCHANGED <<spawnArgs, procs_env_list, ctxVars>>

\* MultiprocessContext.__init__: self.sentinels
ContextSentinels(procs) ==
    [s \in {Sentinel(At(procs, k)) : k \in 0..(Len(procs) - 1)} |->
        CHOOSE index \in 0..(Len(procs) - 1) : Sentinel(At(procs, index)) = s]

\* MakeContext with the test of line 416 dropped: spawn always goes on to
\* the loop of line 420
MakeContext_JoinsAnyway ==
    /\ spawnPc = "start"
    /\ Len(processes) = nprocs
    /\ sentinels' = ContextSentinels(processes)
    /\ spawnPc' = "loop"
    /\ UNCHANGED <<spawnArgs, spawnError, procs_env_list, processes, workerVars,
                   joinPc, ready, error_index, drain_i, joined, waited, outcome,
                   raised, join_calls, terminated>>

\* spawn, lines 415-417: the context, returned at once unless join
MakeContext ==
    /\ spawnPc = "start"
    /\ Len(processes) = nprocs
    /\ sentinels' = ContextSentinels(processes)
    /\ spawnPc' = IF join THEN "loop" ELSE "returned"
    /\ UNCHANGED <<spawnArgs, spawnError, procs_env_list, processes, workerVars,
                   joinPc, ready, error_index, drain_i, joined, waited, outcome,
                   raised, join_calls, terminated>>

\* ------------------------------------------------------------ _func_wrapper

Alive(i) == i \in DOMAIN wstate /\ wstate[i] # "exited"

\* the process of worker i ends with exit status code
Exit(i, code) ==
    /\ wstate' = [wstate EXCEPT ![i] = "exited"]
    /\ exitcode' = exitcode @@ (i :> code)
    /\ failOrder' = IF code # 0 THEN Append(failOrder, i) ELSE failOrder

\* lines 168-169: _remove_risky_env(); _set_trainer_env(env_dict)
SetTrainerEnv(i) ==
    /\ i \in DOMAIN wstate /\ wstate[i] = "boot"
    /\ osenv' = osenv @@ (i :> env_dict[i])
    /\ wstate' = [wstate EXCEPT ![i] = "func"]
    /\ UNCHANGED <<env_dict, result, tb, exitcode, failOrder, error_queues,
                   return_queues>>
    /\ UNCHANGED <<puts, spawnArgs, spawnVars, ctxVars>>

\* line 171: func(*args) returns a value
FuncReturns(i) ==
    /\ i \in DOMAIN wstate /\ wstate[i] = "func"
    /\ \E v \in FuncResults(osenv[i]) : result' = result @@ (i :> v)
    /\ wstate' = [wstate EXCEPT ![i] = "result"]
    /\ UNCHANGED <<env_dict, osenv, tb, exitcode, failOrder, error_queues,
                   return_queues>>
    /\ UNCHANGED <<puts, spawnArgs, spawnVars, ctxVars>>

\* PutResult with the put forgotten
PutResult_Lost(i) ==
    /\ i \in DOMAIN wstate /\ wstate[i] = "result"
    /\ wstate' = [wstate EXCEPT ![i] = "done"]
    /\ UNCHANGED <<env_dict, osenv, result, tb, exitcode, failOrder,
                   error_queues, return_queues>>
    /\ UNCHANGED <<puts, spawnArgs, spawnVars, ctxVars>>

\* PutResult with one return queue shared by all workers, that of worker 0
PutResult_IntoFirst(i) ==
    /\ i \in DOMAIN wstate /\ wstate[i] = "result"
    /\ return_queues' = [return_queues EXCEPT ![0] = Append(@, result[i])]
    /\ puts' = Incr(puts, {[writer |-> i, owner |-> 0, channel |-> "return"]})
    /\ wstate' = [wstate EXCEPT ![i] = "done"]
    /\ UNCHANGED <<env_dict, osenv, result, tb, exitcode, failOrder,
                   error_queues>>
    /\ UNCHANGED <<spawnArgs, spawnVars, ctxVars>>

\* line 173: return_queue.put(result)
PutResult(i) ==
    /\ i \in DOMAIN wstate /\ wstate[i] = "result"
    /\ return_queues' = [return_queues EXCEPT ![i] = Append(@, result[i])]
    /\ puts' = Incr(puts, {[writer |-> i, owner |-> i, channel |-> "return"]})
    /\ wstate' = [wstate EXCEPT ![i] = "done"]
    /\ UNCHANGED <<env_dict, osenv, result, tb, exitcode, failOrder,
                   error_queues>>
    /\ UNCHANGED <<spawnArgs, spawnVars, ctxVars>>

\* the wrapper returns after line 173: the process exits with status 0
ExitNormally(i) ==
    /\ i \in DOMAIN wstate /\ wstate[i] = "done"
    /\ Exit(i, 0)
    /\ UNCHANGED <<env_dict, osenv, result, tb, error_queues, return_queues>>
    /\ UNCHANGED <<puts, spawnArgs, spawnVars, ctxVars>>

\* lines 176-177: func raises an Exception, the wrapper formats the traceback
FuncRaises(i) ==
    /\ i \in DOMAIN wstate /\ wstate[i] = "func"
    /\ \E text \in FuncErrors(osenv[i]) :
          tb' = tb @@ (i :> <<"Traceback (most recent call last):">> \o text)
    /\ wstate' = [wstate EXCEPT ![i] = "except"]
    /\ UNCHANGED <<env_dict, osenv, result, exitcode, failOrder, error_queues,
                   return_queues>>
    /\ UNCHANGED <<puts, spawnArgs, spawnVars, ctxVars>>

\* line 178: error_queue.put(traceback.format_exc())
PutError(i) ==
    /\ i \in DOMAIN wstate /\ wstate[i] = "except"
    /\ error_queues' = [error_queues EXCEPT ![i] = Append(@, tb[i])]
    /\ puts' = Incr(puts, {[writer |-> i, owner |-> i, channel |-> "error"]})
    /\ wstate' = [wstate EXCEPT ![i] = "reported"]
    /\ UNCHANGED <<env_dict, osenv, result, tb, exitcode, failOrder,
                   return_queues>>
    /\ UNCHANGED <<spawnArgs, spawnVars, ctxVars>>

\* line 179: sys.exit(1)
SysExit1(i) ==
    /\ i \in DOMAIN wstate /\ wstate[i] = "reported"
    /\ Exit(i, 1)
    /\ UNCHANGED <<env_dict, osenv, result, tb, error_queues, return_queues>>
    /\ UNCHANGED <<puts, spawnArgs, spawnVars, ctxVars>>

\* lines 174-175: func is interrupted by KeyboardInterrupt; the wrapper
\* passes and returns, the process exits with status 0
KeyboardInterrupted(i) ==
    /\ i \in DOMAIN wstate /\ wstate[i] = "func"
    /\ Exit(i, 0)
    /\ UNCHANGED <<env_dict, osenv, result, tb, error_queues, return_queues>>
    /\ UNCHANGED <<puts, spawnArgs, spawnVars, ctxVars>>

\* func raises SystemExit(code): no except clause of the wrapper catches it
\* (it is no Exception), the process exits with status code
FuncSysExit(i) ==
    /\ i \in DOMAIN wstate /\ wstate[i] = "func"
    /\ \E code \in SysExitCodes : Exit(i, code)
    /\ UNCHANGED <<env_dict, osenv, result, tb, error_queues, return_queues>>
    /\ UNCHANGED <<puts, spawnArgs, spawnVars, ctxVars>>

\* a signal from outside kills the worker before func has returned:
\* exitcode is minus the signal
KilledBySignal(i) ==
    /\ i \in DOMAIN wstate /\ wstate[i] \in {"boot", "func"}
    /\ \E sig \in ExternalSignals : Exit(i, 0 - sig)
    /\ UNCHANGED <<env_dict, osenv, result, tb, error_queues, return_queues>>
    /\ UNCHANGED <<puts, spawnArgs, spawnVars, ctxVars>>

\* ------------------------------------------------------ MultiprocessContext

\* a finite set of integers as the ascending list
RECURSIVE Ascending(_)
Ascending(S) ==
    IF S = {} THEN << >>
    ELSE LET m == CHOOSE x \in S : \A y \in S : x <= y
         IN <<m>> \o Ascending(S \ {m})

\* multiprocessing.connection.wait(self.sentinels.keys()): the sentinels of
\* the exited processes, in the order of self.sentinels.keys(), which is the
\* order the processes were inserted in
Wait(sents) ==
    Ascending({s \in DOMAIN sents : wstate[sents[s]] = "exited"})

\* BreakAt without the break of line 212: the last failing process wins
BreakAt_NoBreak(sents, rdy) ==
    IF \E k \in 1..Len(rdy) : exitcode[sents[rdy[k]]] # 0
    THEN CHOOSE k \in 1..Len(rdy) :
            /\ exitcode[sents[rdy[k]]] # 0
            /\ \A j \in (k + 1)..Len(rdy) : exitcode[sents[rdy[j]]] = 0
    ELSE 0

\* lines 205-212: the position in ready of the sentinel the loop breaks at,
\* 0 when it runs to the end
BreakAt(sents, rdy) ==
    IF \E k \in 1..Len(rdy) : exitcode[sents[rdy[k]]] # 0
    THEN CHOOSE k \in 1..Len(rdy) :
            /\ exitcode[sents[rdy[k]]] # 0
            /\ \A j \in 1..(k - 1) : exitcode[sents[rdy[j]]] = 0
    ELSE 0

\* lines 206-209: the sentinels the loop pops, whose processes it joins
Popped(sents, rdy) ==
    IF BreakAt(sents, rdy) = 0 THEN Elems(rdy)
    ELSE {rdy[k] : k \in 1..BreakAt(sents, rdy)}

\* ErrorIndex with line 211 overwriting error_index for every failing
\* process of ready: the last one is kept
ErrorIndex_LastFailing(sents, rdy) ==
    IF BreakAt(sents, rdy) = 0 THEN {}
    ELSE {sents[rdy[BreakAt_NoBreak(sents, rdy)]]}

\* line 211: error_index after the loop, {} for None
ErrorIndex(sents, rdy) ==
    IF BreakAt(sents, rdy) = 0 THEN {}
    ELSE {sents[rdy[BreakAt(sents, rdy)]]}

\* Return with the loop of line 420 written "while context.join()": it ends
\* on False and goes on after True
Return_LoopNegated(value) ==
    /\ outcome' = value
    /\ joinPc' = "idle"
    /\ spawnPc' = IF spawnPc = "loop" /\ value = "false" THEN "returned"
                  ELSE spawnPc

\* Return with line 215 written "return True"
Return_AlwaysTrue(value) ==
    /\ outcome' = "true"
    /\ joinPc' = "idle"
    /\ spawnPc' = IF spawnPc = "loop" THEN "returned" ELSE spawnPc

\* join returns value to its caller; the loop of spawn ends on True
Return(value) ==
    /\ outcome' = value
    /\ joinPc' = "idle"
    /\ spawnPc' = IF spawnPc = "loop" /\ value = "true" THEN "returned"
                  ELSE spawnPc

\* NoSentinels with the early return of lines 199-200 removed
NoSentinels_Never == FALSE

\* line 199: len(self.sentinels) == 0
NoSentinels == DOMAIN sentinels = {}

\* MultiprocessContext.join(timeout), lines 198-215, up to its return or to
\* the start of the loop of line 217
Join(timeout) ==
    /\ joinPc = "idle"
    /\ IF NoSentinels
       THEN /\ Return("true")
            /\ waited' = FALSE
            /\ UNCHANGED <<sentinels, ready, error_index, drain_i, joined,
                           join_calls>>
       ELSE LET rdy == Wait(sentinels)
                popped == Popped(sentinels, rdy)
                err == ErrorIndex(sentinels, rdy)
                left == [s \in DOMAIN sentinels \ popped |-> sentinels[s]]
            IN  \* without a timeout the wait blocks until a process exits
                /\ timeout = "None" => rdy # << >>
                /\ waited' = TRUE
                /\ ready' = rdy
                /\ sentinels' = left
                /\ joined' = joined \cup {sentinels[s] : s \in popped}
                /\ join_calls' = Incr(join_calls, {sentinels[s] : s \in popped})
                /\ error_index' = err
                /\ IF err = {}
                   THEN /\ Return(IF DOMAIN left = {} THEN "true" ELSE "false")
                        /\ UNCHANGED drain_i
                   ELSE /\ outcome' = "draining"
                        /\ joinPc' = "is_alive"
                        /\ drain_i' = 0
                        /\ UNCHANGED spawnPc
    /\ UNCHANGED <<spawnArgs, spawnError, procs_env_list, processes, workerVars,
                   raised, terminated>>

\* spawn, lines 420-421: while not context.join(): pass
SpawnJoinLoop ==
    /\ spawnPc = "loop"
    /\ Join("None")

\* the caller of spawn calls context.join on the context spawn returned
CallerJoin ==
    /\ spawnPc = "returned"
    /\ \E timeout \in {"None", "timeout"} : Join(timeout)

\* DrainIsAlive with the test of line 218 dropped: every process of the loop
\* is terminated
DrainIsAlive_Always ==
    /\ joinPc = "is_alive"
    /\ joinPc' = "terminate"
    /\ UNCHANGED <<spawnArgs, spawnVars, workerVars, sentinels, ready,
                   error_index, drain_i, joined, waited, outcome, raised,
                   join_calls, terminated>>

\* line 218: process.is_alive() of the loop of line 217
DrainIsAlive ==
    /\ joinPc = "is_alive"
    /\ joinPc' = IF Alive(At(processes, drain_i)) THEN "terminate" ELSE "join"
    /\ UNCHANGED <<spawnArgs, spawnVars, workerVars, sentinels, ready,
                   error_index, drain_i, joined, waited, outcome, raised,
                   join_calls, terminated>>

\* line 219: process.terminate(); a process that has exited meanwhile is
\* left as it is
DrainTerminate ==
    /\ joinPc = "terminate"
    /\ LET i == At(processes, drain_i) IN
       IF Alive(i) THEN Exit(i, 0 - SIGTERM)
       ELSE UNCHANGED <<wstate, exitcode, failOrder>>
    /\ terminated' = terminated \cup {At(processes, drain_i)}
    /\ joinPc' = "join"
    /\ UNCHANGED <<spawnArgs, spawnVars, env_dict, osenv, result, tb,
                   error_queues, return_queues, puts, sentinels, ready,
                   error_index, drain_i, joined, waited, outcome, raised,
                   join_calls>>

\* DrainJoin with the loop of line 217 ending one process early
DrainJoin_SkipLast ==
    /\ joinPc = "join"
    /\ ~Alive(At(processes, drain_i))
    /\ joined' = joined \cup {At(processes, drain_i)}
    /\ join_calls' = Incr(join_calls, {At(processes, drain_i)})
    /\ IF drain_i + 1 < Len(processes) - 1
       THEN drain_i' = drain_i + 1 /\ joinPc' = "is_alive"
       ELSE drain_i' = drain_i /\ joinPc' = "throw"
    /\ UNCHANGED <<spawnArgs, spawnVars, workerVars, sentinels, ready,
                   error_index, waited, outcome, raised, terminated>>

\* line 220: process.join() blocks until the process has exited
DrainJoin ==
    /\ joinPc = "join"
    /\ ~Alive(At(processes, drain_i))
    /\ joined' = joined \cup {At(processes, drain_i)}
    /\ join_calls' = Incr(join_calls, {At(processes, drain_i)})
    /\ IF drain_i + 1 < Len(processes)
       THEN drain_i' = drain_i + 1 /\ joinPc' = "is_alive"
       ELSE drain_i' = drain_i /\ joinPc' = "throw"
    /\ UNCHANGED <<spawnArgs, spawnVars, workerVars, sentinels, ready,
                   error_index, waited, outcome, raised, terminated>>

\* signal.Signals(n).name
SignalName(n) ==
    CASE n = 9 -> "SIGKILL"
      [] n = 15 -> "SIGTERM"
      [] OTHER -> "SIG?"

\* Thrown with line 239 (msg += original_trace) forgotten
Thrown_NoTrace(index) ==
    IF error_queues[index] = << >>
    THEN [type |-> "Exception", error_index |-> index,
          msg |-> <<"Process ", ToString(index), " terminated.">>]
    ELSE [type |-> "Exception", error_index |-> index,
          msg |-> <<"Process ", ToString(index),
                    " terminated with the following error:">>]

\* the exception _throw_exception(index) raises, lines 224-240
Thrown(index) ==
    IF error_queues[index] = << >>
    THEN IF exitcode[index] < 0
         THEN [type |-> "Exception", error_index |-> index,
               msg |-> <<"Process ", ToString(index),
                         " terminated with signal ",
                         SignalName(0 - exitcode[index]), ".">>]
         ELSE \* str & tuple is no operation: the raise raises TypeError
              [type |-> "TypeError", error_index |-> index,
               msg |-> <<"unsupported operand type(s) for &: ",
                         "'str' and 'tuple'">>]
    ELSE [type |-> "Exception", error_index |-> index,
          msg |-> <<"Process ", ToString(index),
                    " terminated with the following error:">>
                  \o Head(error_queues[index])]

\* line 222: self._throw_exception(error_index); the exception leaves join
\* and, raised inside spawn, leaves spawn
ThrowException ==
    /\ joinPc = "throw"
    /\ LET index == CHOOSE i \in error_index : TRUE IN
       /\ raised' = Append(raised, Thrown(index))
       /\ error_queues' =
              IF error_queues[index] = << >> THEN error_queues
              ELSE [error_queues EXCEPT ![index] = Tail(@)]
    /\ outcome' = "raise"
    /\ joinPc' = "idle"
    /\ spawnPc' = IF spawnPc = "loop" THEN "raised" ELSE spawnPc
    /\ UNCHANGED <<spawnArgs, spawnError, procs_env_list, processes, env_dict,
                   wstate, osenv, result, tb, exitcode, failOrder,
                   return_queues, puts, sentinels, ready, error_index, drain_i,
                   joined, waited, join_calls, terminated>>

\* ------------------------------------------------------- the specifications

\* nothing has been planned or started, no join has been called
Fresh ==
    /\ spawnPc = "check"
    /\ spawnError = "none"
    /\ procs_env_list = << >>
    /\ processes = << >>
    /\ env_dict = Empty /\ wstate = Empty /\ osenv = Empty /\ result = Empty
    /\ tb = Empty /\ exitcode = Empty /\ failOrder = << >>
    /\ error_queues = Empty /\ return_queues = Empty /\ puts = Empty
    /\ sentinels = Empty
    /\ joinPc = "idle"
    /\ ready = << >>
    /\ error_index = {}
    /\ drain_i = 0
    /\ joined = {}
    /\ waited = FALSE
    /\ outcome = "none"
    /\ raised = << >>
    /\ join_calls = Empty
    /\ terminated = {}

\* spawn is called with no options on a machine with nprocs devices
Init ==
    /\ nprocs \in 1..MaxProcs
    /\ join \in BOOLEAN
    /\ options = Empty
    /\ device = "gpu"
    /\ cpu_num = 1
    /\ cuda_count = nprocs
    /\ env_devices = << >>
    /\ Fresh

Next ==
    \/ OptionsValidCheck
    \/ DefaultNprocs
    \/ GetSubprocessEnvList
    \/ StartProcess
    \/ MakeContext
    \/ \E i \in Workers : SetTrainerEnv(i)
    \/ \E i \in Workers : FuncReturns(i)
    \/ \E i \in Workers : PutResult(i)
    \/ \E i \in Workers : ExitNormally(i)
    \/ \E i \in Workers : FuncRaises(i)
    \/ \E i \in Workers : PutError(i)
    \/ \E i \in Workers : SysExit1(i)
    \/ \E i \in Workers : KeyboardInterrupted(i)
    \/ \E i \in Workers : FuncSysExit(i)
    \/ \E i \in Workers : KilledBySignal(i)
    \/ SpawnJoinLoop
    \/ CallerJoin
    \/ DrainIsAlive
    \/ DrainTerminate
    \/ DrainJoin
    \/ ThrowException

\* the steps of the parent inside spawn and inside a join call
ParentStep ==
    \/ OptionsValidCheck
    \/ DefaultNprocs
    \/ GetSubprocessEnvList
    \/ StartProcess
    \/ MakeContext
    \/ SpawnJoinLoop
    \/ DrainIsAlive
    \/ DrainTerminate
    \/ DrainJoin
    \/ ThrowException

\* the steps worker i takes by itself once func has ended
WorkerProceeds(i) ==
    \/ SetTrainerEnv(i)
    \/ PutResult(i)
    \/ ExitNormally(i)
    \/ PutError(i)
    \/ SysExit1(i)

\* the parent thread and every worker process keep being scheduled
Fairness ==
    /\ WF_vars(ParentStep)
    /\ \A i \in Workers : WF_vars(WorkerProceeds(i))

Spec == Init /\ [][Next]_vars

SpecLive == Init /\ [][Next]_vars /\ Fairness

\* in worker i the call of func ends, in one of the ways it can end by itself
FuncEnds(i) ==
    \/ FuncReturns(i)
    \/ FuncRaises(i)
    \/ KeyboardInterrupted(i)
    \/ FuncSysExit(i)

\* SpecLive for worker functions that end: every worker exits by itself
\* unless it is terminated first
SpecExits ==
    Init /\ [][Next]_vars /\ Fairness /\ \A i \in Workers : WF_vars(FuncEnds(i))

\* the device ids of the machine
Devices == 0..(MaxDevices - 1)

\* **options with the given keys present
MakeOptions(cluster, node, selected, unknown) ==
    [key \in (IF cluster THEN {"cluster_node_ips"} ELSE {})
             \cup (IF node THEN {"node_ip"} ELSE {})
             \cup (IF selected # << >> THEN {"selected_gpus"} ELSE {})
             \cup (IF unknown THEN {"gpus"} ELSE {}) |->
        CASE key = "cluster_node_ips" -> <<"10.0.0.1", "10.0.0.2">>
          [] key = "node_ip" -> <<"10.0.0.1">>
          [] key = "selected_gpus" -> selected
          [] key = "gpus" -> selected]

\* the lists over S without a repeated element
Distinct(S) == {l \in SeqsOf(S, 1, Cardinality(S)) :
                   \A j, k \in 1..Len(l) : j # k => l[j] # l[k]}

\* spawn is called with any nprocs and options on any machine
InitSpawn ==
    /\ nprocs \in {-1} \cup 1..MaxProcs
    /\ join \in BOOLEAN
    /\ options \in {MakeOptions(c, n, s, u) :
                       c \in BOOLEAN, n \in BOOLEAN,
                       s \in {<< >>} \cup SeqsOf(Devices, 1, MaxSelected),
                       u \in BOOLEAN}
    /\ device \in IF nprocs = -1 THEN {"cpu", "gpu"} ELSE {"gpu"}
    /\ cpu_num \in IF nprocs = -1 /\ device = "cpu" THEN 1..MaxProcs ELSE {1}
    /\ cuda_count \in 0..MaxDevices
    /\ env_devices \in {<< >>} \cup Distinct(Devices)
    /\ Fresh

\* spawn up to the construction of the context, and the started workers up
\* to the call of func
NextSpawn ==
    \/ OptionsValidCheck
    \/ DefaultNprocs
    \/ GetSubprocessEnvList
    \/ StartProcess
    \/ MakeContext
    \/ \E i \in Workers : SetTrainerEnv(i)

SpecSpawn == InitSpawn /\ [][NextSpawn]_vars

\* ------------------------------------------------------------------ claims

\* a join call has just raised to its caller
JoinRaised == outcome = "raise" /\ joinPc = "idle"

\* the worker the last raised exception was composed for
Named == raised[Len(raised)].error_index

\* the worker whose process owns sentinel s
IndexOf(s) == CHOOSE i \in Workers : Sentinel(i) = s

\* the position of worker i in failOrder, 0 when it has not failed
RECURSIVE PosIn(_, _)
PosIn(list, x) ==
    IF list = << >> THEN 0
    ELSE IF Head(list) = x THEN 1
    ELSE IF PosIn(Tail(list), x) = 0 THEN 0 ELSE 1 + PosIn(Tail(list), x)

\* C1: whenever join raises a worker failure, every worker of the pool has
\* exited and has been joined by the supervisor: no worker is alive.
C1_AllReapedWhenRaised ==
    JoinRaised =>
        \A i \in Pool : /\ ~Alive(i)
                        /\ i \in DOMAIN exitcode
                        /\ i \in joined

\* C1 witness: join has raised while a sibling was still running, which the
\* supervisor had to terminate
C1_Witness ==
    /\ JoinRaised
    /\ Len(processes) >= 2
    /\ \E i \in Pool : i # Named /\ exitcode[i] = 0 - SIGTERM

\* C2: over any sequence of join calls on one context, join returns True only
\* if every worker has exited with exit code 0.
C2_TrueOnlyIfAllSucceeded ==
    outcome = "true" =>
        \A i \in Pool : i \in DOMAIN exitcode /\ exitcode[i] = 0

\* C3: failure reporting is single-shot: over any sequence of join calls on
\* one context, all failures raised name the same worker.
C3_SingleShot ==
    \A j, k \in 1..Len(raised) : raised[j].error_index = raised[k].error_index

\* C4 as written: the worker a raised failure names is the first worker to
\* have exited abnormally: no worker that exited abnormally before it is
\* passed over (left unreported by this and all earlier failures).
C4_FirstAbnormalExitNamed ==
    JoinRaised =>
        \A v \in Pool :
            (PosIn(failOrder, v) # 0 /\ PosIn(failOrder, v) < PosIn(failOrder, Named))
                => \E k \in 1..Len(raised) : raised[k].error_index = v

\* C4 amended: the worker a raised failure names exited with a non-zero exit
\* code and is the first such worker in the order in which the wait of that
\* join call reported the exited workers: every worker reported before it
\* exited with code 0.
C4_FirstFailureInReadyOrder ==
    JoinRaised =>
        \E k \in 1..Len(ready) :
            /\ IndexOf(ready[k]) = Named
            /\ exitcode[Named] # 0
            /\ \A j \in 1..(k - 1) : exitcode[IndexOf(ready[j])] = 0

\* C4 witness: join has raised for a worker although another worker, reported
\* by the same wait, had exited abnormally before it
C4_Witness ==
    /\ JoinRaised
    /\ Len(raised) = 1
    /\ \E v \in Pool : /\ v # Named
                       /\ Sentinel(v) \in Elems(ready)
                       /\ PosIn(failOrder, v) # 0
                       /\ PosIn(failOrder, v) < PosIn(failOrder, Named)

\* every worker of the pool has been started and has returned from func,
\* and spawn runs the join loop
AllReturnedNormally ==
    /\ join
    /\ Len(processes) = nprocs
    /\ \A i \in Pool : i \in DOMAIN result

\* the loop of spawn has got True and every result channel holds what its
\* worker returned
LoopGotTrue ==
    /\ spawnPc = "returned"
    /\ outcome = "true"
    /\ raised = << >>
    /\ \A i \in Pool : i \in DOMAIN result /\ return_queues[i] = <<result[i]>>

ThrowStep == joinPc = "throw" /\ joinPc' = "idle"

\* the worker _throw_exception is called for
Failing == CHOOSE i \in error_index : TRUE

\* list part occurs in list whole from position k on
OccursAt(part, whole, k) ==
    /\ k + Len(part) - 1 <= Len(whole)
    /\ \A j \in 1..Len(part) : whole[k + j - 1] = part[j]

\* C6: when join finds a failing worker whose error channel holds a
\* diagnostic, the failure raised names that worker's index in its frame and
\* embeds, after the frame, the full diagnostic that this worker wrote.
C6_DiagnosticEmbedded ==
    [][(ThrowStep /\ error_queues[Failing] # << >>) =>
          LET e == raised'[Len(raised')] IN
          /\ e.type = "Exception"
          /\ e.error_index = Failing
          /\ \E k \in 2..Len(e.msg) :
                /\ OccursAt(tb[Failing], e.msg, k)
                /\ k + Len(tb[Failing]) - 1 = Len(e.msg)
                /\ \E j \in 1..(k - 1) : e.msg[j] = ToString(Failing)]_vars

\* C6 witness: join has raised a failure composed from a diagnostic
C6_Witness ==
    /\ JoinRaised
    /\ Named \in DOMAIN tb
    /\ error_queues[Named] = << >>
    /\ " terminated with the following error:" \in Elems(raised[Len(raised)].msg)

\* C7: when join finds a failing worker whose error channel is empty, it
\* raises a worker failure whose message names the worker's index and the
\* signal name if the exit code is negative, the raw exit code otherwise.
C7_EmptyChannelMessage ==
    [][(ThrowStep /\ error_queues[Failing] = << >>) =>
          LET e == raised'[Len(raised')] IN
          /\ e.type = "Exception"
          /\ ToString(Failing) \in Elems(e.msg)
          /\ IF exitcode[Failing] < 0
             THEN SignalName(0 - exitcode[Failing]) \in Elems(e.msg)
             ELSE ToString(exitcode[Failing]) \in Elems(e.msg)]_vars

\* C8: once a join call has returned True, every later join call returns
\* True again at once: it does not reach the wait, raises nothing and leaves
\* the live set, the processes and the channels as they are.
C8_JoinIdempotent ==
    [][outcome = "true" =>
          /\ outcome' = "true"
          /\ joinPc' = "idle"
          /\ waited' = FALSE
          /\ UNCHANGED <<sentinels, processes, workerVars, joined, raised>>]_vars

\* C8 witness: join has been called again after it had returned True
C8_Witness ==
    /\ outcome = "true"
    /\ waited = FALSE
    /\ raised = << >>
    /\ Len(processes) >= 2

\* the configuration errors of spawn
ConfigurationErrors ==
    {"ValueError: option not supported",
     "ValueError: please input current node ip",
     "RuntimeError: visible devices less than spawn processes",
     "ValueError: selected gpu card cannot found"}

\* C9: every configuration error of spawn is raised before any worker
\* process is started: no process, no channel and no context exists.
C9_NoProcessOnConfigurationError ==
    spawnError \in ConfigurationErrors =>
        /\ processes = << >>
        /\ DOMAIN wstate = {}
        /\ DOMAIN error_queues = {} /\ DOMAIN return_queues = {}
        /\ sentinels = Empty

\* C9 witness: spawn has raised for a selected device that is not visible
C9_Witness ==
    /\ spawnPc = "raised"
    /\ spawnError = "ValueError: selected gpu card cannot found"
    /\ nprocs >= 2

\* C10: for every N >= 1 and every option set the planner accepts, the
\* planner returns exactly N records with pairwise distinct ranks in [0, N)
\* and pairwise distinct device bindings, and the launcher starts exactly N
\* workers, worker i with record i.
C10_ExactlyNDistinctRecords ==
    (nprocs >= 1 /\ spawnPc \in {"start", "loop", "returned"}) =>
        /\ Len(procs_env_list) = nprocs
        /\ \A k \in 1..Len(procs_env_list) :
              procs_env_list[k].PADDLE_TRAINER_ID \in 0..(nprocs - 1)
        /\ \A j, k \in 1..Len(procs_env_list) :
              j # k => /\ procs_env_list[j].PADDLE_TRAINER_ID
                            # procs_env_list[k].PADDLE_TRAINER_ID
                       /\ procs_env_list[j].FLAGS_selected_gpus
                            # procs_env_list[k].FLAGS_selected_gpus
        /\ spawnPc \in {"loop", "returned"} =>
              /\ Len(processes) = nprocs
              /\ \A i \in Pool : env_dict[i] = At(procs_env_list, i)

\* the positions in ready of the workers one wait reported with a non-zero
\* exit code
FailedInReady == {k \in 1..Len(ready) : exitcode[IndexOf(ready[k])] # 0}

\* C11: when the wait of one join call has reported two or more workers with
\* non-zero exit codes, the call raises one failure, which names the first of
\* them in the order of that wait, and every worker of the batch and of the
\* pool has exited and has been joined before the failure is raised.
C11_BatchFailureNamesFirst ==
    [][(ThrowStep /\ Cardinality(FailedInReady) >= 2) =>
          /\ Len(raised') = Len(raised) + 1
          /\ \E k \in FailedInReady :
                /\ \A j \in FailedInReady : k <= j
                /\ raised'[Len(raised')].error_index = IndexOf(ready[k])
          /\ \A k \in 1..Len(ready) : IndexOf(ready[k]) \in joined
          /\ \A i \in Pool : ~Alive(i) /\ i \in joined]_vars

\* C11 witness: join has raised after one wait had reported two workers
\* with non-zero exit codes
C11_Witness ==
    /\ JoinRaised
    /\ Cardinality(FailedInReady) >= 2
    /\ Named = IndexOf(ready[1])

\* the number of values worker i has put into its own channel of that kind
OwnPuts(i, kind) ==
    Count(puts, [writer |-> i, owner |-> i, channel |-> kind])

\* worker i has exited by itself, neither killed from outside nor terminated
ExitedByItself(i) == i \in DOMAIN exitcode /\ exitcode[i] >= 0

\* the call of func in worker i ended neither by returning nor by a
\* KeyboardInterrupt: it raised, or it exited the process with a status
FuncFailed(i) ==
    /\ ExitedByItself(i)
    /\ i \notin DOMAIN result
    /\ i \in DOMAIN tb \/ exitcode[i] # 0

\* C12: whenever the call of func has ended in another way than a return or
\* a KeyboardInterrupt, the wrapper has put a diagnostic into the error
\* queue of the worker and the process has exited with a non-zero status.
C12_NoInvisibleFailure ==
    \A i \in Pool :
        FuncFailed(i) => OwnPuts(i, "error") = 1 /\ exitcode[i] # 0

\* spawn has returned to its caller or has raised
SpawnEnded == spawnPc \in {"returned", "raised"}

\* every worker of the pool has exited, by itself or by the SIGTERM of the
\* supervisor, and the supervisor has joined it
DrainComplete ==
    \A i \in Pool :
        /\ ~Alive(i)
        /\ i \in joined
        /\ i \in DOMAIN exitcode
        /\ exitcode[i] = 0 - SIGTERM => i \in terminated

\* C13: when every worker function ends, spawn with join=True ends: the loop
\* over join(None) stops with True or with a raised failure; and once a join
\* has found a failure, it terminates the workers still alive, joins every
\* worker and raises.
C13_SpawnJoinTerminates ==
    join =>
        /\ <>SpawnEnded
        /\ [](outcome = "draining" =>
                 <>(spawnPc = "raised" /\ JoinRaised /\ DrainComplete))

\* C13 witness: the loop of spawn has ended with a raised failure after the
\* drain loop had to terminate a worker that was still alive
C13_Witness ==
    /\ join
    /\ spawnPc = "raised"
    /\ JoinRaised
    /\ \E i \in Pool : i \in terminated /\ exitcode[i] = 0 - SIGTERM

\* C14: spawn with join=False returns the context right after the start of
\* the nprocs workers: at its return no wait has been made, no worker has
\* been joined or terminated, the sentinels of all nprocs workers are in
\* self.sentinels and nothing has been raised; and spawn never ends by
\* raising a worker failure.
C14_NoJoinReturnsUntouched ==
    [][(~join /\ spawnPc' # spawnPc /\ SpawnEnded') =>
          /\ spawnPc' = "returned"
          /\ Len(processes') = nprocs
          /\ DOMAIN sentinels' = {Sentinel(i) : i \in 0..(nprocs - 1)}
          /\ \A i \in 0..(nprocs - 1) : sentinels'[Sentinel(i)] = i
          /\ outcome' = "none" /\ ~waited'
          /\ joined' = {} /\ join_calls' = Empty
          /\ terminated' = {}
          /\ raised' = << >>
          /\ UNCHANGED workerVars]_vars

\* C14 witness: spawn with join=False has returned, no join has been called
\* yet, and a worker has already failed
C14_Witness ==
    /\ ~join
    /\ spawnPc = "returned"
    /\ outcome = "none"
    /\ raised = << >>
    /\ \E i \in Pool : i \in DOMAIN exitcode /\ exitcode[i] = 1

\* the context exists and no join call is running
BetweenJoinCalls ==
    /\ spawnPc \in {"loop", "returned", "raised"}
    /\ spawnError = "none"
    /\ joinPc = "idle"

\* the workers whose sentinels are in self.sentinels
LiveSet == {sentinels[s] : s \in DOMAIN sentinels}

\* C15: between join calls, self.sentinels holds exactly the workers that
\* have not been joined yet: a worker joined by the inspection loop or by
\* the drain loop is no longer in it.
C15_LiveSetIsUnjoined ==
    BetweenJoinCalls => LiveSet = Pool \ joined

\* C16: over all join calls on one context, process.join() is called on
\* every worker process at most once.
C16_JoinedAtMostOnce ==
    \A i \in Pool : Count(join_calls, i) <= 1

\* a join call that finds no failure: it starts and ends within one step
JoinRoundStep ==
    /\ spawnPc \in {"loop", "returned"}
    /\ joinPc = "idle" /\ joinPc' = "idle"
    /\ ctxVars' # ctxVars \/ spawnPc' # spawnPc

\* the sentinels a step removes from self.sentinels
Removed == DOMAIN sentinels \ DOMAIN sentinels'

\* C17: a join call that finds no failure returns True or False, True just
\* when self.sentinels is empty afterwards; it removes from self.sentinels
\* only workers that have exited with code 0, which it joins, and changes no
\* process, no worker state and no queue, terminates nobody and raises
\* nothing; when no worker of a non-empty self.sentinels has exited, it
\* returns False, leaves self.sentinels as it is and joins nobody.
C17_QuietRoundFrame ==
    [][JoinRoundStep =>
          /\ outcome' \in {"true", "false"}
          /\ outcome' = "true" <=> DOMAIN sentinels' = {}
          /\ \A s \in DOMAIN sentinels' :
                s \in DOMAIN sentinels /\ sentinels'[s] = sentinels[s]
          /\ \A s \in Removed : /\ ~Alive(sentinels[s])
                                 /\ exitcode[sentinels[s]] = 0
          /\ joined' = joined \cup {sentinels[s] : s \in Removed}
          /\ UNCHANGED <<processes, workerVars, terminated, raised>>
          /\ (DOMAIN sentinels # {} /\ \A s \in DOMAIN sentinels :
                                          Alive(sentinels[s]))
                => /\ outcome' = "false"
                   /\ UNCHANGED <<sentinels, joined, join_calls>>]_vars

\* C17 witness: a join with a timeout has returned False after a wait that
\* reported nobody, with every worker still alive and none joined
C17_Witness ==
    /\ spawnPc = "returned"
    /\ joinPc = "idle"
    /\ outcome = "false"
    /\ waited /\ ready = << >>
    /\ LiveSet = Pool /\ joined = {} /\ terminated = {}
    /\ \A i \in Pool : Alive(i)

C19_LaunchOrdering ==
    /\ processes # << >> =>
          /\ spawnPc \notin {"check", "nprocs", "plan"}
          /\ procs_env_list =
                ProcessesEnvList(nprocs, options, env_devices, cuda_count)
    /\ \A i \in Pool :
          /\ i < Len(procs_env_list)
          /\ env_dict[i] = At(procs_env_list, i)
          /\ \A j \in Pool : j # i => env_dict[j] # At(procs_env_list, i)
          /\ wstate[i] = "func" =>
                i \in DOMAIN osenv /\ osenv[i] = At(procs_env_list, i)
          /\ i \in DOMAIN osenv => osenv[i] = At(procs_env_list, i)

\* C19 witness: two workers have been started, with different records, and
\* the second of them has come to the call of func before the first
C19_Witness ==
    /\ Len(processes) >= 2
    /\ wstate[1] = "func" /\ osenv[1] = At(procs_env_list, 1)
    /\ wstate[0] = "boot"
    /\ At(procs_env_list, 0) # At(procs_env_list, 1)

\* the drain loop calls process.terminate() on the process it is at
TerminateStep == joinPc = "terminate" /\ joinPc' = "join"

\* the process the drain loop is at
Target == At(processes, drain_i)

\* C20: the supervisor calls terminate only in the drain loop and only on a
\* worker it has not joined yet; on a worker that is alive the call ends it
\* with SIGTERM, on a worker that has exited meanwhile it changes nothing;
\* while join drains, the recorded error_index stays, the exception raised
\* at the end names it, and every drain comes to that raise.
C20_TerminateIdempotent ==
    /\ [][/\ terminated' # terminated => TerminateStep
          /\ TerminateStep =>
                /\ Target \notin joined
                /\ terminated' = terminated \cup {Target}
                /\ IF Alive(Target)
                   THEN /\ ~Alive(Target)'
                        /\ exitcode' = exitcode @@ (Target :> 0 - SIGTERM)
                   ELSE UNCHANGED workerVars
                /\ UNCHANGED <<error_index, raised, outcome>>
          /\ (outcome = "draining" /\ ~ThrowStep) =>
                error_index' = error_index /\ outcome' = "draining"
          /\ ThrowStep =>
                /\ error_index = {raised'[Len(raised')].error_index}
                /\ Len(raised') = Len(raised) + 1]_vars
    /\ (outcome = "draining") ~> JoinRaised

\* C20 witness: the drain loop has called terminate on a worker that had
\* exited by itself after the is_alive test, and its exit code is still its
\* own
C20_Witness ==
    /\ joinPc = "join"
    /\ raised = << >>
    /\ Target \in terminated
    /\ Target \notin joined
    /\ exitcode[Target] # 0 - SIGTERM

====
